---- MODULE Spec2Model ----
(***************************************************************************)
(* Model of python-impl/fields.py: the prime field Fq and its quadratic    *)
(* extension Fq2 (FieldExtBase with embedding 2, root -1).                 *)
(*                                                                         *)
(* Python values are records tagged by "kind":                             *)
(*   int   [kind, v]             a plain integer                           *)
(*   Fq    [kind, Q, v]          an Fq instance (an int subclass)          *)
(*   Fq2   [kind, Q, c, root]    an Fq2 instance (a tuple subclass), c the *)
(*                               tuple of coefficients                     *)
(*   raise [kind, exc]           a call that ended by raising exc          *)
(*   bool, None, NotImplemented                                            *)
(* Python's % and // on a positive divisor are TLA+'s % and \div.          *)
(***************************************************************************)
EXTENDS Integers, Sequences, FiniteSets, TLC

\* ---------------------------------------------------------------- bounds
MaxQ == 17            \* moduli of Fq are the primes up to MaxQ
MaxExtQ == 13         \* moduli of Fq2 are the primes up to MaxExtQ
MaxInt == 14          \* plain integers are drawn from -MaxInt..MaxInt
MaxExp == 12          \* exponents are drawn from -MaxNegExp..MaxExp
MaxNegExp == 2
MaxArgs == 3          \* Fq2(Q, *args) is called with 0..MaxArgs arguments
RecursionLimit == 6   \* depth at which the interpreter raises RecursionError

\* ------------------------------------------------------- class attributes
Fq_extension == 1
Fq2_extension == 2
Fq2_embedding == 2

\* ----------------------------------------------------------------- values
IntVal(n) == [kind |-> "int", v |-> n]
BoolVal(b) == [kind |-> "bool", b |-> b]
None == [kind |-> "None"]
NotImplemented == [kind |-> "NotImplemented"]
Raise(e) == [kind |-> "raise", exc |-> e]

\* isinstance(x, int): Fq subclasses int
IsInstanceInt(x) == x.kind \in {"int", "Fq"}

\* x.extension does not raise AttributeError
HasExtension(x) == x.kind \in {"Fq", "Fq2"}

ExtensionOf(x) == IF x.kind = "Fq" THEN Fq_extension ELSE Fq2_extension

\* bool(x) of an int
Truthy(x) == x.v # 0

\* a modulus is a prime the caller supplies
IsPrime(n) == n > 1 /\ \A d \in 2..(n - 1) : n % d # 0

Moduli == {q \in 2..MaxQ : IsPrime(q)}

ExtModuli == {q \in 2..MaxExtQ : IsPrime(q)}

\* --------------------------------------------------------------------- Fq
Fq__new__NoReduce(Q, x) == [kind |-> "Fq", Q |-> Q, v |-> x]

Fq(Q, x) == [kind |-> "Fq", Q |-> Q, v |-> x % Q]

Fq__neg__(self) == Fq(self.Q, -self.v)

Fq__add__(self, other) ==
    IF ~IsInstanceInt(other) THEN NotImplemented
    ELSE Fq(self.Q, self.v + other.v)

Fq__radd__(self, other) ==
    IF ~IsInstanceInt(other) THEN NotImplemented
    ELSE Fq__add__(self, other)

Fq__sub__(self, other) ==
    IF ~IsInstanceInt(other) THEN NotImplemented
    ELSE Fq(self.Q, self.v - other.v)

Fq__rsub__(self, other) ==
    IF ~IsInstanceInt(other) THEN NotImplemented
    ELSE Fq(self.Q, other.v - self.v)

Fq__mul__(self, other) ==
    IF ~IsInstanceInt(other) THEN NotImplemented
    ELSE Fq(self.Q, self.v * other.v)

Fq__rmul__(self, other) == Fq__mul__(self, other)

Fq__eq__(self, other) ==
    IF other.kind # "Fq"
    THEN other.kind = "int" /\ self.v = other.v
    ELSE self.v = other.v /\ self.Q = other.Q

\* the while loop of __invert__; q, b, a and x0, x1 and y0, y1 are assigned
\* simultaneously from the old values
RECURSIVE EuclidLoop(_, _, _, _, _, _)
EuclidLoop(a, b, x0, x1, y0, y1) ==
    IF a = 0 THEN [b |-> b, x0 |-> x0, y0 |-> y0]
    ELSE EuclidLoop(b % a, a, x1, x0 - (b \div a) * x1, y1, y0 - (b \div a) * y1)

Fq__invert__WrongCoefficient(self) ==
    Fq(self.Q, EuclidLoop(self.Q, self.v, 1, 0, 0, 1).y0)

Fq__invert__(self) == Fq(self.Q, EuclidLoop(self.Q, self.v, 1, 0, 0, 1).x0)

\* other is an int or an Fq
Fq__floordiv__(self, other) ==
    LET o == IF other.kind = "int" THEN Fq(self.Q, other.v) ELSE other
    IN  Fq__mul__(self, Fq__invert__(o))

Fq_zero(Q) == Fq(Q, 0)

Fq_one(Q) == Fq(Q, 1)

Fq_from_fq(Q, fq) == fq

\* ----------------------------------------------------------- FieldExtBase
\* ret = super().__new__(cls, coefficients); ret.Q = Q; ret.root = root
ExtValue(Q, coefficients, root) ==
    [kind |-> "Fq2", Q |-> Q, c |-> coefficients, root |-> root]

set_root(self, _root) == [self EXCEPT !.root = _root]

\* __new__ from "if arg_extension != 1" on; new_args is args, or the lifted args
NewChecked(Q, args, arg_extension, new_args) ==
    LET bad == {i \in 1..Len(new_args) :
                   \/ ~HasExtension(new_args[i])
                   \/ ExtensionOf(new_args[i]) # arg_extension}
        first == CHOOSE i \in bad : \A j \in bad : i <= j
    IN  IF arg_extension # 1 /\ Len(args) # Fq2_embedding
        THEN Raise("Exception")
        ELSE IF arg_extension # 1 /\ bad # {}
        THEN IF ~HasExtension(new_args[first]) THEN Raise("AttributeError")
             ELSE Raise("AssertionError")
        ELSE IF \E i \in 1..Len(new_args) : ~IsInstanceInt(new_args[i])
        THEN Raise("AssertionError")
        ELSE ExtValue(Q, new_args, None)

\* the except AttributeError branch of __new__; Fq(Q, a) of a tuple is a TypeError
NewExcept(Q, args) ==
    IF Len(args) # 2 THEN Raise("Exception")
    ELSE IF \E i \in 1..Len(args) : ~IsInstanceInt(args[i]) THEN Raise("TypeError")
    ELSE NewChecked(Q, args, 1, [i \in 1..Len(args) |-> Fq(Q, args[i].v)])

FieldExtBase__new__(Q, args) ==
    IF Len(args) = 0 THEN Raise("IndexError")
    ELSE IF ~HasExtension(args[1]) THEN NewExcept(Q, args)
    ELSE IF Len(args) = 1 THEN Raise("IndexError")
    ELSE IF ~HasExtension(args[2]) THEN NewExcept(Q, args)
    ELSE NewChecked(Q, args, ExtensionOf(args[1]), args)

\* Fq2(Q, *args): __new__, then __init__ sets the root
Fq2(Q, args) ==
    LET ret == FieldExtBase__new__(Q, args)
    IN  IF ret.kind = "raise" THEN ret ELSE set_root(ret, Fq(Q, -1))

FieldExtBase_from_fq(Q, fq) ==
    LET y == Fq_from_fq(Q, fq)
        z == Fq_zero(Q)
    IN  set_root(ExtValue(Q, [i \in 1..Fq2_embedding |-> IF i - 1 # 0 THEN z ELSE y], None),
                 Fq(Q, -1))

FieldExtBase_zero(Q) == FieldExtBase_from_fq(Q, Fq(Q, 0))

FieldExtBase_one(Q) == FieldExtBase_from_fq(Q, Fq(Q, 1))

RECURSIVE MulLoopNoRoot(_, _, _, _)
MulLoopNoRoot(self, other, buf, k) ==
    LET m == Len(other.c)
        i == k \div m
        j == k % m
        x == self.c[i + 1]
        y == other.c[j + 1]
        at == ((i + j) % Fq2_embedding) + 1
    IN  IF k >= Len(self.c) * m THEN buf
        ELSE IF Truthy(x) /\ Truthy(y)
        THEN MulLoopNoRoot(self, other,
                           [buf EXCEPT ![at] = Fq__add__(buf[at], Fq__mul__(x, y))], k + 1)
        ELSE MulLoopNoRoot(self, other, buf, k + 1)

\* the two loops of __mul__, k counting the pairs (i, j) in the order of the code
RECURSIVE MulLoop(_, _, _, _)
MulLoop(self, other, buf, k) ==
    LET m == Len(other.c)
        i == k \div m
        j == k % m
        x == self.c[i + 1]
        y == other.c[j + 1]
        at == ((i + j) % Fq2_embedding) + 1
        term == IF i + j >= Fq2_embedding
                THEN Fq__mul__(Fq__mul__(x, y), self.root)
                ELSE Fq__mul__(x, y)
    IN  IF k >= Len(self.c) * m THEN buf
        ELSE IF Truthy(x) /\ Truthy(y)
        THEN MulLoop(self, other, [buf EXCEPT ![at] = Fq__add__(buf[at], term)], k + 1)
        ELSE MulLoop(self, other, buf, k + 1)

\* other is an int, an Fq or an Fq2; in the last case cls.extension equals
\* other.extension, the only case of a two-level tower
FieldExtBase__mul__(self, other) ==
    IF IsInstanceInt(other)
    THEN ExtValue(self.Q, [i \in 1..Len(self.c) |-> Fq__mul__(self.c[i], other)], self.root)
    ELSE IF Fq2_extension < ExtensionOf(other) THEN NotImplemented
    ELSE ExtValue(self.Q,
                  MulLoop(self, other, [i \in 1..Len(self.c) |-> Fq_zero(self.Q)], 0),
                  self.root)

\* tuple.__eq__: same length, items equal by ==
TupleEq(v, w) == Len(v) = Len(w) /\ \A i \in 1..Len(v) : Fq__eq__(v[i], w[i])

FieldExtBase__eq__(self, other) ==
    IF other.kind # "Fq2"
    THEN /\ \A i \in 2..Fq2_embedding : self.c[i].v = 0
         /\ Fq__eq__(self.c[1], other)
    ELSE TupleEq(self.c, other.c) /\ self.Q = other.Q

\* v[::-1]
Reversed(v) == [i \in 1..Len(v) |-> v[Len(v) + 1 - i]]

\* tuple.__lt__: the first index whose items differ by == decides, by int <;
\* with none, the shorter tuple is the smaller
TupleLt(v, w) ==
    LET n == IF Len(v) < Len(w) THEN Len(v) ELSE Len(w)
        diff == {i \in 1..n : ~Fq__eq__(v[i], w[i])}
        first == CHOOSE i \in diff : \A j \in diff : i <= j
    IN  IF diff = {} THEN Len(v) < Len(w) ELSE v[first].v < w[first].v

FieldExtBase__lt__NotReversed(self, other) == TupleLt(self.c, other.c)

FieldExtBase__lt__(self, other) == TupleLt(Reversed(self.c), Reversed(other.c))

\* the while loop of __pow__
RECURSIVE ExtPowLoop(_, _, _)
ExtPowLoop(ans, base, e) ==
    IF e = 0 THEN ans
    ELSE ExtPowLoop(IF e % 2 = 1 THEN FieldExtBase__mul__(ans, base) ELSE ans,
                    FieldExtBase__mul__(base, base),
                    e \div 2)

FieldExtBase__pow__(self, e) ==
    IF ~(e >= 0) THEN Raise("AssertionError")
    ELSE ExtPowLoop(set_root(FieldExtBase_one(self.Q), self.root), self, e)

FieldExtBase__bool__(self) == \E i \in 1..Len(self.c) : Truthy(self.c[i])

Fq2__invert__NoNeg(self) ==
    LET a == self.c[1]
        b == self.c[2]
        factor == Fq__invert__(Fq__add__(Fq__mul__(a, a), Fq__mul__(b, b)))
    IN  Fq2(self.Q, <<Fq__mul__(a, factor), Fq__mul__(b, factor)>>)

\* for a two-coefficient self
Fq2__invert__(self) ==
    LET a == self.c[1]
        b == self.c[2]
        factor == Fq__invert__(Fq__add__(Fq__mul__(a, a), Fq__mul__(b, b)))
    IN  Fq2(self.Q, <<Fq__mul__(a, factor), Fq__mul__(Fq__neg__(b), factor)>>)

\* ------------------------------------------------------------------ state
\* acc     the element the caller holds: the receiver of the next call
\* op      the call in progress or just finished; arg its argument
\* result  what the call returned or raised
\* pc      "ready" (no call), "call" and "return" (inside Fq.__pow__), "done"
\* frames  the stack of Fq.__pow__ activations, each its self and other
VARIABLES acc, op, arg, result, pc, frames

vars == <<acc, op, arg, result, pc, frames>>

\* ----------------------------------------------------------------- inputs
Ints == (-MaxInt)..MaxInt

Exps == (-MaxNegExp)..MaxExp

IntOperands == {IntVal(x) : x \in Ints}

FqOperands == IntOperands \cup {Fq(Q, x) : Q \in Moduli, x \in 0..(MaxQ - 1)}

\* argument shapes of Fq2(Q, *args): a raw integer, a base-field element, an
\* extension element
ArgValues(Q) == {IntVal(5), Fq(Q, 3), FieldExtBase_one(Q)}

ArgTuples(Q) == UNION {[1..n -> ArgValues(Q)] : n \in 0..MaxArgs}

\* the elements a + b*i of Fq2 over Q, as Fq2(Q, a, b) builds them
Fq2Elems(Q) == {Fq2(Q, <<IntVal(a), IntVal(b)>>) : a, b \in 0..(Q - 1)}

IsFq2Elem(x) ==
    /\ x.kind = "Fq2"
    /\ Len(x.c) = Fq2_embedding
    /\ \A i \in 1..Len(x.c) : x.c[i].kind = "Fq" /\ x.c[i].Q = x.Q

Init ==
    /\ acc = None
    /\ op = "none"
    /\ arg = None
    /\ result = None
    /\ pc = "ready"
    /\ frames = <<>>

\* a call that returns at once
Returns(name, a, r) ==
    /\ op' = name
    /\ arg' = a
    /\ result' = r
    /\ pc' = "done"
    /\ UNCHANGED <<acc, frames>>

\* ------------------------------------------------------------- Fq actions
FqNew ==
    /\ pc = "ready"
    /\ \E Q \in Moduli, x \in Ints : Returns("Fq.new", IntVal(x), Fq(Q, x))

FqZero ==
    /\ pc = "ready"
    /\ \E Q \in Moduli : Returns("Fq.zero", IntVal(Q), Fq_zero(Q))

FqOne ==
    /\ pc = "ready"
    /\ \E Q \in Moduli : Returns("Fq.one", IntVal(Q), Fq_one(Q))

FqNeg ==
    /\ pc = "ready"
    /\ acc.kind = "Fq"
    /\ Returns("Fq.neg", None, Fq__neg__(acc))

FqAdd ==
    /\ pc = "ready"
    /\ acc.kind = "Fq"
    /\ \E o \in FqOperands : Returns("Fq.add", o, Fq__add__(acc, o))

FqRadd ==
    /\ pc = "ready"
    /\ acc.kind = "Fq"
    /\ \E o \in IntOperands : Returns("Fq.radd", o, Fq__radd__(acc, o))

FqSub ==
    /\ pc = "ready"
    /\ acc.kind = "Fq"
    /\ \E o \in FqOperands : Returns("Fq.sub", o, Fq__sub__(acc, o))

FqRsub ==
    /\ pc = "ready"
    /\ acc.kind = "Fq"
    /\ \E o \in IntOperands : Returns("Fq.rsub", o, Fq__rsub__(acc, o))

FqMul ==
    /\ pc = "ready"
    /\ acc.kind = "Fq"
    /\ \E o \in FqOperands : Returns("Fq.mul", o, Fq__mul__(acc, o))

FqRmul ==
    /\ pc = "ready"
    /\ acc.kind = "Fq"
    /\ \E o \in IntOperands : Returns("Fq.rmul", o, Fq__rmul__(acc, o))

FqInvert ==
    /\ pc = "ready"
    /\ acc.kind = "Fq"
    /\ Returns("Fq.invert", None, Fq__invert__(acc))

FqFloordiv ==
    /\ pc = "ready"
    /\ acc.kind = "Fq"
    /\ \E o \in FqOperands : Returns("Fq.floordiv", o, Fq__floordiv__(acc, o))

\* Fq.__pow__ runs one activation at a time
Frame(self, other) == [self |-> self, other |-> other]

Top == frames[Len(frames)]

Popped == SubSeq(frames, 1, Len(frames) - 1)

\* what an activation returns without recursing: [base |-> whether it does, ret]
PowBase(self, other) ==
    IF other = 0 THEN [base |-> TRUE, ret |-> Fq(self.Q, 1)]
    ELSE IF other = 1 THEN [base |-> TRUE, ret |-> self]
    ELSE [base |-> FALSE, ret |-> None]

\* the activation (self * self) ** (other // 2)
PowRecurse(self, other) == Frame(Fq__mul__(self, self), other \div 2)

PowCombineNoOdd(self, other, ret) == ret

\* what an activation returns once its recursive call returned ret
PowCombine(self, other, ret) ==
    IF other % 2 = 0 THEN ret ELSE Fq__mul__(ret, self)

FqPowCall ==
    /\ pc = "ready"
    /\ acc.kind = "Fq"
    /\ \E e \in Exps :
          /\ op' = "Fq.pow"
          /\ arg' = IntVal(e)
          /\ frames' = <<Frame(acc, e)>>
    /\ pc' = "call"
    /\ UNCHANGED <<acc, result>>

FqPowStep ==
    /\ pc = "call"
    /\ LET b == PowBase(Top.self, Top.other)
       IN  IF b.base
           THEN /\ result' = b.ret
                /\ frames' = Popped
                /\ pc' = IF Len(frames) = 1 THEN "done" ELSE "return"
           ELSE IF Len(frames) >= RecursionLimit
           THEN /\ result' = Raise("RecursionError")
                /\ frames' = <<>>
                /\ pc' = "done"
           ELSE /\ frames' = Append(frames, PowRecurse(Top.self, Top.other))
                /\ UNCHANGED <<result, pc>>
    /\ UNCHANGED <<acc, op, arg>>

FqPowReturn ==
    /\ pc = "return"
    /\ result' = PowCombine(Top.self, Top.other, result)
    /\ frames' = Popped
    /\ pc' = IF Len(frames) = 1 THEN "done" ELSE "return"
    /\ UNCHANGED <<acc, op, arg>>

\* ------------------------------------------------------------ Fq2 actions
\* Fq2(Q, a, b) of two raw integers
ExtNew ==
    /\ pc = "ready"
    /\ \E Q \in ExtModuli : \E a, b \in 0..(Q - 1) :
          Returns("Fq2.new", <<IntVal(a), IntVal(b)>>, Fq2(Q, <<IntVal(a), IntVal(b)>>))

\* Fq2(Q, *args) of any argument shape
ExtNewArgs ==
    /\ pc = "ready"
    /\ \E Q \in ExtModuli : \E args \in ArgTuples(Q) :
          Returns("Fq2.new", args, Fq2(Q, args))

ExtOne ==
    /\ pc = "ready"
    /\ \E Q \in ExtModuli : Returns("Fq2.one", IntVal(Q), FieldExtBase_one(Q))

ExtMul ==
    /\ pc = "ready"
    /\ IsFq2Elem(acc)
    /\ \E y \in Fq2Elems(acc.Q) : Returns("Fq2.mul", y, FieldExtBase__mul__(acc, y))

ExtLt ==
    /\ pc = "ready"
    /\ IsFq2Elem(acc)
    /\ \E y \in Fq2Elems(acc.Q) :
          Returns("Fq2.lt", y, BoolVal(FieldExtBase__lt__(acc, y)))

ExtPow ==
    /\ pc = "ready"
    /\ IsFq2Elem(acc)
    /\ \E e \in Exps : Returns("Fq2.pow", IntVal(e), FieldExtBase__pow__(acc, e))

ExtInvert ==
    /\ pc = "ready"
    /\ IsFq2Elem(acc)
    /\ Returns("Fq2.invert", None, Fq2__invert__(acc))

\* the caller keeps the element a call returned and goes on with it
Take ==
    /\ pc = "done"
    /\ acc' = IF result.kind \in {"Fq", "Fq2"} THEN result ELSE acc
    /\ op' = "none"
    /\ arg' = None
    /\ result' = None
    /\ pc' = "ready"
    /\ UNCHANGED frames

Next ==
    \/ FqNew \/ FqZero \/ FqOne \/ FqNeg
    \/ FqAdd \/ FqRadd \/ FqSub \/ FqRsub \/ FqMul \/ FqRmul
    \/ FqInvert \/ FqFloordiv
    \/ FqPowCall \/ FqPowStep \/ FqPowReturn
    \/ ExtNew \/ ExtNewArgs \/ ExtOne
    \/ ExtMul \/ ExtLt \/ ExtPow \/ ExtInvert
    \/ Take

Spec == Init /\ [][Next]_vars

\* ----------------------------------------------------------------- claims
Finished(name) == pc = "done" /\ op = name

\* C1: for a prime Q and a nonzero Fq element a, __invert__ returns an element
\* of [0, Q) with a * invert(a) == one(Q), and invert(invert(a)) == a.
C1_InvertIsInverse ==
    (Finished("Fq.invert") /\ acc.v # 0) =>
        /\ result.kind = "Fq"
        /\ result.Q = acc.Q
        /\ 0 <= result.v /\ result.v < acc.Q
        /\ Fq__eq__(Fq__mul__(acc, result), Fq_one(acc.Q))
        /\ Fq__eq__(Fq__invert__(result), acc)

\* the vector of the specification: 5 * 8 = 40 = 1 mod 13
C1_Witness ==
    /\ Finished("Fq.invert")
    /\ acc = Fq(13, 5)
    /\ result = Fq(13, 8)

\* C2: the product of x = (a, b) and y = (c, d) over the same Q is
\* ((a*c - b*d) mod Q, (a*d + b*c) mod Q), zero coefficients included.
C2_MulIsConvolution ==
    Finished("Fq2.mul") =>
        LET a == acc.c[1].v
            b == acc.c[2].v
            c == arg.c[1].v
            d == arg.c[2].v
        IN  /\ result.kind = "Fq2"
            /\ result.Q = acc.Q
            /\ result.root = acc.root
            /\ Len(result.c) = 2
            /\ \A i \in 1..2 : result.c[i].kind = "Fq" /\ result.c[i].Q = acc.Q
            /\ result.c[1].v = (a * c - b * d) % acc.Q
            /\ result.c[2].v = (a * d + b * c) % acc.Q

\* a product with a skipped zero coefficient and a term folded by the root
C2_Witness ==
    /\ Finished("Fq2.mul")
    /\ acc.Q = 13
    /\ acc.c[1].v = 0 /\ acc.c[2].v = 4
    /\ arg.c[1].v = 3 /\ arg.c[2].v = 2
    /\ result.c[1].v = 5 /\ result.c[2].v = 12

Norm(x) == (x.c[1].v * x.c[1].v + x.c[2].v * x.c[2].v) % x.Q

InvertIsInverse ==
    LET N == Norm(acc)
    IN  /\ IsFq2Elem(result)
        /\ result.root = Fq(acc.Q, -1)
        /\ (N * result.c[1].v) % acc.Q = acc.c[1].v
        /\ (N * result.c[2].v) % acc.Q = (-acc.c[2].v) % acc.Q
        /\ FieldExtBase__eq__(FieldExtBase__mul__(acc, result), FieldExtBase_one(acc.Q))

\* C3 as stated: for every nonzero x = a + b*i of Fq2, __invert__ is
\* (a*N^-1) + (-b*N^-1)*i with N = a^2 + b^2, and x * invert(x) == one.
C3_InvertEveryNonzero ==
    (Finished("Fq2.invert") /\ FieldExtBase__bool__(acc)) => InvertIsInverse

\* C3 amended: for every x = a + b*i of Fq2 whose norm N = a^2 + b^2 is not
\* zero mod Q, __invert__ is (a*N^-1) + (-b*N^-1)*i and x * invert(x) == one.
C3_InvertNonzeroNorm ==
    (Finished("Fq2.invert") /\ Norm(acc) # 0) => InvertIsInverse

\* the vector of the specification: (3 + 4i) over 13, of norm 25 = 12
C3_Witness ==
    /\ Finished("Fq2.invert")
    /\ acc.Q = 13
    /\ acc.c[1].v = 3 /\ acc.c[2].v = 4
    /\ Norm(acc) = 12
    /\ result.kind = "Fq2"

\* C4: inverting the zero of Fq, and dividing by it, raises; it never
\* returns a field element.
C4_ZeroInversionRaises ==
    (\/ Finished("Fq.invert") /\ acc.v = 0
     \/ Finished("Fq.floordiv") /\ arg.v % (IF arg.kind = "Fq" THEN arg.Q ELSE acc.Q) = 0)
        => result.kind = "raise"

\* C5: add, sub and mul of two Fq elements of different moduli raise; they
\* never return a result under one of the two moduli.
C5_CrossModulusRaises ==
    (/\ pc = "done"
     /\ op \in {"Fq.add", "Fq.sub", "Fq.mul"}
     /\ arg.kind = "Fq"
     /\ arg.Q # acc.Q)
        => result.kind = "raise"

InRange(x) == x.kind = "Fq" => (0 <= x.v /\ x.v < x.Q)

\* C6: every Fq element a sequence of Fq operations produces, with Fq or
\* plain-integer operands, has 0 <= value < Q for its modulus Q.
C6_CanonicalRange ==
    /\ InRange(acc)
    /\ InRange(result)
    /\ \A i \in 1..Len(frames) : InRange(frames[i].self)

\* a subtraction whose integer difference, 3 - 14, is negative
C6_Witness ==
    /\ Finished("Fq.sub")
    /\ acc = Fq(13, 3)
    /\ arg = IntVal(14)
    /\ result = Fq(13, 2)

\* v^e mod Q as e multiplications of integers
RECURSIVE RefPow(_, _, _)
RefPow(v, e, Q) == IF e = 0 THEN 1 % Q ELSE (RefPow(v, e - 1, Q) * v) % Q

\* (a + b*i)^e mod Q as e multiplications of pairs of integers
RECURSIVE RefExtPow(_, _, _, _)
RefExtPow(a, b, e, Q) ==
    IF e = 0 THEN <<1 % Q, 0>>
    ELSE LET p == RefExtPow(a, b, e - 1, Q)
         IN  <<(p[1] * a - p[2] * b) % Q, (p[1] * b + p[2] * a) % Q>>

\* C7: for e >= 0, a.pow(e) is the product of e copies of a (one for e = 0,
\* a for e = 1); a.pow(Q-1) == one for a nonzero a of Fq;
\* a.pow(4) == (a.pow(2)).pow(2); an Fq2 result carries the root of a.
C7_PowIsProduct ==
    /\ (Finished("Fq.pow") /\ arg.v >= 0) =>
          /\ result = Fq(acc.Q, RefPow(acc.v, arg.v, acc.Q))
          /\ arg.v = 0 => result = Fq_one(acc.Q)
          /\ arg.v = 1 => result = acc
          /\ (arg.v = acc.Q - 1 /\ acc.v # 0) => result = Fq_one(acc.Q)
    /\ (Finished("Fq2.pow") /\ arg.v >= 0) =>
          /\ IsFq2Elem(result)
          /\ result.root = acc.root
          /\ <<result.c[1].v, result.c[2].v>>
                = RefExtPow(acc.c[1].v, acc.c[2].v, arg.v, acc.Q)
          /\ arg.v = 0 => FieldExtBase__eq__(result, FieldExtBase_one(acc.Q))
          /\ arg.v = 1 => FieldExtBase__eq__(result, acc)
          /\ arg.v = 4 =>
                FieldExtBase__eq__(result,
                    FieldExtBase__pow__(FieldExtBase__pow__(acc, 2), 2))

\* Fermat for the test prime: 2^12 == 1 mod 13, through the recursion
C7_Witness ==
    /\ Finished("Fq.pow")
    /\ acc = Fq(13, 2)
    /\ arg = IntVal(12)
    /\ result = Fq(13, 1)

\* C8: x < y compares index 1 first, by canonical value, and index 0 only when
\* the index-1 coefficients are equal; exactly one of x < y, x == y, y < x holds.
C8_LtIsReverseLexicographic ==
    Finished("Fq2.lt") =>
        LET lt == FieldExtBase__lt__(acc, arg)
            gt == FieldExtBase__lt__(arg, acc)
            eq == FieldExtBase__eq__(acc, arg)
        IN  /\ result = BoolVal(lt)
            /\ lt = (\/ acc.c[2].v < arg.c[2].v
                     \/ acc.c[2].v = arg.c[2].v /\ acc.c[1].v < arg.c[1].v)
            /\ (lt /\ ~eq /\ ~gt) \/ (~lt /\ eq /\ ~gt) \/ (~lt /\ ~eq /\ gt)

\* (5, 1) < (1, 2) over 13: index 1 decides against the order of index 0
C8_Witness ==
    /\ Finished("Fq2.lt")
    /\ acc.Q = 13
    /\ acc.c[1].v = 5 /\ acc.c[2].v = 1
    /\ arg.c[1].v = 1 /\ arg.c[2].v = 2
    /\ result = BoolVal(TRUE)

\* C9: Fq2(Q, *args) of any shape other than exactly 2 coefficients raises;
\* every Fq2 the constructor returns has exactly 2 coefficients.
C9_NewRejectsOtherShapes ==
    Finished("Fq2.new") =>
        /\ Len(arg) # Fq2_embedding => result.kind = "raise"
        /\ result.kind = "Fq2" => Len(result.c) = Fq2_embedding

\* C10: pow with a negative exponent raises at the call: it returns no value
\* and makes no recursive call.
C10_NegativePowRaisesAtCall ==
    (op \in {"Fq.pow", "Fq2.pow"} /\ arg.v < 0) =>
        /\ Len(frames) <= 1
        /\ pc = "done" => (result.kind = "raise" /\ result.exc # "RecursionError")
====
